---- MODULE Spec2Model ----
(***************************************************************************)
(* Wordlister: candidate generation (PasswordGenerator) and the parallel   *)
(* generation pipeline (GenerationEngine) driven by WordlisterApp.         *)
(*                                                                         *)
(* A string is a sequence of one-character strings, so that case folding,  *)
(* replacement, trimming and splitting are computed character by           *)
(* character, as the Python code computes them.                            *)
(***************************************************************************)
EXTENDS Integers, Sequences, FiniteSets, TLC

(***************************************************************************)
(* Bounds of the model.                                                    *)
(***************************************************************************)
\* capacity of result_queue in the model (Queue(maxsize=10000) in the code);
\* as in the code, it is no smaller than the largest worker pool
QueueCapacity == 2
\* largest worker-pool size start_generation may choose (from os.cpu_count())
MaxThreads == 2
\* longest list of one-letter tokens the functions are called with
MaxTokens == 6
\* how many tokens of a list are joined into one longer token
MaxJoined == 3

(***************************************************************************)
(* Characters and strings.                                                 *)
(***************************************************************************)
Lowers == <<"a", "b", "c", "d", "e", "f", "g", "h", "i", "j", "k", "l", "m",
            "n", "o", "p", "q", "r", "s", "t", "u", "v", "w", "x", "y", "z">>

Uppers == <<"A", "B", "C", "D", "E", "F", "G", "H", "I", "J", "K", "L", "M",
            "N", "O", "P", "Q", "R", "S", "T", "U", "V", "W", "X", "Y", "Z">>

IsLower(c) == \E i \in 1..Len(Lowers) : Lowers[i] = c

IsUpper(c) == \E i \in 1..Len(Uppers) : Uppers[i] = c

\* str.upper() on one character
UpperChar(c) ==
    IF IsLower(c) THEN Uppers[CHOOSE i \in 1..Len(Lowers) : Lowers[i] = c] ELSE c

\* str.lower() on one character
LowerChar(c) ==
    IF IsUpper(c) THEN Lowers[CHOOSE i \in 1..Len(Uppers) : Uppers[i] = c] ELSE c

\* str.lower()
StrLower(w) == [i \in 1..Len(w) |-> LowerChar(w[i])]

\* str.upper()
StrUpper(w) == [i \in 1..Len(w) |-> UpperChar(w[i])]

\* str.title(): a cased character is upper-cased when the character before it
\* is not cased, and lower-cased when it is
StrTitle(w) ==
    [i \in 1..Len(w) |->
        IF i > 1 /\ (IsLower(w[i - 1]) \/ IsUpper(w[i - 1]))
        THEN LowerChar(w[i])
        ELSE UpperChar(w[i])]

\* str.replace(old, new) for a one-character old and new
StrReplace(w, old, new) == [i \in 1..Len(w) |-> IF w[i] = old THEN new ELSE w[i]]

\* c in s
CharIn(c, w) == \E i \in 1..Len(w) : w[i] = c

\* whitespace, as str.strip() sees it
IsSpace(c) == c = " "

\* str.strip()
RECURSIVE StrStrip(_)
StrStrip(w) ==
    IF w = <<>> THEN <<>>
    ELSE IF IsSpace(Head(w)) THEN StrStrip(Tail(w))
    ELSE IF IsSpace(w[Len(w)]) THEN StrStrip(SubSeq(w, 1, Len(w) - 1))
    ELSE w

\* str.split(","): the pieces between the commas, empty pieces included
RECURSIVE StrSplitComma(_)
StrSplitComma(w) ==
    IF \E i \in 1..Len(w) : w[i] = ","
    THEN LET k == CHOOSE i \in 1..Len(w) :
                     w[i] = "," /\ \A j \in 1..(i - 1) : w[j] # ","
         IN  <<SubSeq(w, 1, k - 1)>> \o StrSplitComma(SubSeq(w, k + 1, Len(w)))
    ELSE <<w>>

\* the elements of a sequence
Range(s) == {s[i] : i \in 1..Len(s)}

(***************************************************************************)
(* PasswordGenerator.                                                      *)
(***************************************************************************)
LEET_MAP ==
    [a |-> <<"a", "4", "@">>,
     e |-> <<"e", "3">>,
     i |-> <<"i", "1", "!">>,
     o |-> <<"o", "0">>,
     s |-> <<"s", "5", "$">>,
     t |-> <<"t", "7">>,
     l |-> <<"l", "1">>,
     g |-> <<"g", "9">>]

SEPARATORS == <<"", "-", "_", ".">>

CAPS_PATTERNS == <<"lower", "upper", "title", "first">>

\* the one-character string s as a string of the model ("" is the empty one)
Str(s) == IF s = "" THEN <<>> ELSE <<s>>

apply_caps(word, pattern) ==
    CASE pattern = "lower" -> StrLower(word)
      [] pattern = "upper" -> StrUpper(word)
      [] pattern = "title" -> StrTitle(word)
      [] pattern = "first" ->
            IF word # <<>>
            THEN <<UpperChar(word[1])>> \o StrLower(Tail(word))
            ELSE word
      [] OTHER -> word

\* apply_leet changed: every glyph of the entry is used (replacements[1:])
apply_leetAllGlyphs(word, intensity) ==
    IF intensity = 0 THEN {word}
    ELSE {word} \cup
         {nw \in {StrReplace(StrReplace(word, cg[1], cg[2]), UpperChar(cg[1]), cg[2]) :
                     cg \in UNION {{<<d, LEET_MAP[d][g]>> : g \in 2..Len(LEET_MAP[d])} :
                                     d \in {e \in DOMAIN LEET_MAP :
                                               CharIn(e, StrLower(word))}}} :
             nw # word}

\* the set list(set(results)) holds
apply_leet(word, intensity) ==
    IF intensity = 0 THEN {word}
    ELSE {word} \cup
         {nw \in {StrReplace(StrReplace(word, c, LEET_MAP[c][2]),
                             UpperChar(c), LEET_MAP[c][2]) :
                     c \in {d \in DOMAIN LEET_MAP : CharIn(d, StrLower(word))}} :
             nw # word}

Min(a, b) == IF a < b THEN a ELSE b

Max(a, b) == IF a > b THEN a ELSE b

\* WordVariations changed: the year is appended only, never put in front
WordVariationsAppendOnly(words, year, depth, use_leet, use_caps) ==
    LET caps_list == IF use_caps THEN Range(CAPS_PATTERNS) ELSE {"lower"}
        leet_intensity == IF use_leet THEN Min(depth, 1) ELSE 0
        leet_words == UNION {apply_leet(apply_caps(word, cp), leet_intensity) :
                                word \in Range(words), cp \in caps_list}
        seps == {sep \in Range(SubSeq(SEPARATORS, 1, 2)) : sep # ""}
    IN  leet_words
        \cup (IF year # <<>>
              THEN {lw \o year : lw \in leet_words}
                   \cup (IF depth >= 2
                         THEN {lw \o Str(sep) \o year :
                                  lw \in leet_words, sep \in seps}
                         ELSE {})
              ELSE {})

\* first loop of generate_variations: case patterns, substitutions, year
WordVariations(words, year, depth, use_leet, use_caps) ==
    LET caps_list == IF use_caps THEN Range(CAPS_PATTERNS) ELSE {"lower"}
        leet_intensity == IF use_leet THEN Min(depth, 1) ELSE 0
        leet_words == UNION {apply_leet(apply_caps(word, cp), leet_intensity) :
                                word \in Range(words), cp \in caps_list}
        seps == {sep \in Range(SubSeq(SEPARATORS, 1, 2)) : sep # ""}
    IN  leet_words
        \cup (IF year # <<>>
              THEN {lw \o year : lw \in leet_words}
                   \cup {year \o lw : lw \in leet_words}
                   \cup (IF depth >= 2
                         THEN {lw \o Str(sep) \o year :
                                  lw \in leet_words, sep \in seps}
                              \cup {year \o Str(sep) \o lw :
                                  lw \in leet_words, sep \in seps}
                         ELSE {})
              ELSE {})

\* WordPairs changed: the pairs are taken in the order of the list only
\* (combinations instead of product)
WordPairsInOrder(words) ==
    LET first == SubSeq(words, 1, Min(3, Len(words)))
    IN  {pr \in Range(first) \X Range(first) :
            /\ pr[1] # pr[2]
            /\ \E i \in 1..Len(first), j \in 1..Len(first) :
                  i < j /\ first[i] = pr[1] /\ first[j] = pr[2]}

\* the pairs (w1, w2) of product(words[:3], repeat=2) that pass "w1 != w2"
WordPairs(words) ==
    LET firstWords == Range(SubSeq(words, 1, Min(3, Len(words))))
    IN  {pr \in firstWords \X firstWords : pr[1] # pr[2]}

\* second loop of generate_variations: ordered pairs of distinct words
PairVariations(words, year, depth, use_caps) ==
    IF depth >= 2 /\ Len(words) >= 2
    THEN LET caps_combos == IF use_caps
                            THEN {<<"lower", "title">>, <<"title", "lower">>}
                            ELSE {<<"lower", "lower">>}
             combos == {apply_caps(pr[1], cc[1]) \o Str(sep) \o apply_caps(pr[2], cc[2]) :
                           pr \in WordPairs(words),
                           cc \in caps_combos,
                           sep \in Range(SubSeq(SEPARATORS, 1, 2))}
         IN  combos
             \cup (IF year # <<>> /\ depth >= 3
                   THEN {combo \o year : combo \in combos}
                   ELSE {})
    ELSE {}

common_suffixes == {<<"!">>, <<"1", "2", "3">>, <<"1">>}

\* third loop of generate_variations: common suffixes
SuffixVariations(words, depth, use_caps) ==
    IF depth >= 2
    THEN {apply_caps(word, cp) \o suffix :
             word \in Range(words),
             cp \in (IF use_caps THEN {"lower", "title"} ELSE {"lower"}),
             suffix \in common_suffixes}
    ELSE {}

generate_variations(words, year, depth, use_leet, use_caps) ==
    WordVariations(words, year, depth, use_leet, use_caps)
    \cup PairVariations(words, year, depth, use_caps)
    \cup SuffixVariations(words, depth, use_caps)

(***************************************************************************)
(* wordlister_strong.py: the mutations, the patterns and the estimate of   *)
(* the single-threaded program.                                            *)
(***************************************************************************)
Digits == <<"0", "1", "2", "3", "4", "5", "6", "7", "8", "9">>

\* str.isdigit(): not empty and every character a digit
IsDigitStr(w) == w # <<>> /\ \A i \in 1..Len(w) : \E d \in 1..Len(Digits) : Digits[d] = w[i]

\* str.capitalize(): the first character upper-cased, the rest lower-cased
StrCapitalize(w) ==
    IF w = <<>> THEN <<>> ELSE <<UpperChar(w[1])>> \o StrLower(Tail(w))

case_variants(word) == {StrLower(word), StrUpper(word), StrCapitalize(word)}

\* the table inside leet_variants
leet ==
    [a |-> <<"a", "A", "@", "4">>,
     b |-> <<"b", "B", "8">>,
     c |-> <<"c", "C", "(">>,
     d |-> <<"d", "D">>,
     e |-> <<"e", "E", "3">>,
     f |-> <<"f", "F">>,
     g |-> <<"g", "G", "6", "9">>,
     h |-> <<"h", "H", "#">>,
     i |-> <<"i", "I", "1", "!">>,
     j |-> <<"j", "J">>,
     k |-> <<"k", "K">>,
     l |-> <<"l", "L", "1", "|">>,
     m |-> <<"m", "M">>,
     n |-> <<"n", "N">>,
     o |-> <<"o", "O", "0">>,
     p |-> <<"p", "P">>,
     q |-> <<"q", "Q">>,
     r |-> <<"r", "R">>,
     s |-> <<"s", "S", "$", "5">>,
     t |-> <<"t", "T", "7", "+">>,
     u |-> <<"u", "U">>,
     v |-> <<"v", "V">>,
     w |-> <<"w", "W">>,
     x |-> <<"x", "X">>,
     y |-> <<"y", "Y">>,
     z |-> <<"z", "Z", "2">>]

\* Pool changed: the table is looked up with c itself, not with c.lower()
PoolWithoutFold(c) == IF c \in DOMAIN leet THEN leet[c] ELSE <<c>>

\* leet.get(c.lower(), [c])
Pool(c) == IF LowerChar(c) \in DOMAIN leet THEN leet[LowerChar(c)] ELSE <<c>>

\* {''.join(p) for p in product(*pools)}
RECURSIVE leet_variants(_)
leet_variants(word) ==
    IF word = <<>> THEN {<<>>}
    ELSE {<<Pool(Head(word))[k]>> \o rest :
             k \in 1..Len(Pool(Head(word))), rest \in leet_variants(Tail(word))}

mutate_final(word, use_case, use_leet) ==
    LET cased == IF use_case THEN UNION {case_variants(v) : v \in {word}}
                 ELSE {word}
    IN  IF use_leet THEN UNION {leet_variants(v) : v \in cased} ELSE cased

\* the elements of ws at the indices where keep is TRUE, in their order
RECURSIVE SelectSeqBy(_, _)
SelectSeqBy(ws, keep) ==
    IF ws = <<>> THEN <<>>
    ELSE (IF keep[1] THEN <<Head(ws)>> ELSE <<>>)
         \o SelectSeqBy(Tail(ws), Tail(keep))

\* split_words: names and numbers, each in the order of words
split_words(ws) ==
    LET isnum == [k \in 1..Len(ws) |-> IsDigitStr(ws[k]) /\ Len(ws[k]) \in {2, 4}]
    IN  [names |-> SelectSeqBy(ws, [k \in 1..Len(ws) |-> ~isnum[k]]),
         numbers |-> SelectSeqBy(ws, isnum)]

separators == <<"", ".", "_">>

symbols == <<"", "@", "!">>

\* NamePairs changed: the test "a == b" is left out
NamePairsWithSelf(names) == Range(names) \X Range(names)

\* the pairs (a, b) the first loop of combine_words does not skip
NamePairs(names) ==
    {pr \in Range(names) \X Range(names) : ~(pr[1] = pr[2])}

\* first loop of combine_words: name + name patterns
NameNamePatterns(names, numbers) ==
    UNION {LET base == pr[1] \o Str(sep) \o pr[2]
           IN  {base}
               \cup {base \o Str(sym) \o num :
                        sym \in Range(symbols), num \in Range(numbers)}
               \cup {num \o base : num \in Range(numbers)} :
           pr \in NamePairs(names), sep \in Range(separators)}

\* second loop of combine_words: name + year patterns
NameYearPatterns(names, numbers) ==
    {name \o Str(sym) \o num :
        name \in Range(names), sym \in Range(symbols), num \in Range(numbers)}
    \cup {num \o name : name \in Range(names), num \in Range(numbers)}

combine_words(names, numbers) ==
    NameNamePatterns(names, numbers) \cup NameYearPatterns(names, numbers)

RECURSIVE Pow(_, _)
Pow(b, n) == IF n = 0 THEN 1 ELSE b * Pow(b, n - 1)

\* the first loop of estimate_total: the sum of count over base_words
RECURSIVE EstimateWords(_, _, _)
EstimateWords(ws, use_case, use_leet) ==
    IF ws = <<>> THEN 0
    ELSE (IF use_case THEN 3 ELSE 1)
         * (IF use_leet THEN Pow(3, Len(Head(ws))) ELSE 1)
         + EstimateWords(Tail(ws), use_case, use_leet)

\* max(len(n) for n in names)
RECURSIVE MaxLenOf(_)
MaxLenOf(names) ==
    IF Len(names) = 1 THEN Len(names[1])
    ELSE Max(Len(Head(names)), MaxLenOf(Tail(names)))

estimate_total(ws, use_case, use_leet) ==
    LET sp == split_words(ws)
        combos == Cardinality(combine_words(sp.names, sp.numbers))
                  * (IF use_case THEN 3 ELSE 1)
                  * (IF use_leet /\ sp.names # <<>>
                     THEN Pow(3, MaxLenOf(sp.names)) ELSE 1)
    IN  Max(EstimateWords(ws, use_case, use_leet) + combos, 1)

(***************************************************************************)
(* WordlisterApp.start_generation: what it reads from the form.            *)
(***************************************************************************)
\* what the form holds when start_generation reads it: the words, year and
\* depth fields ("blank" is the depth select without a value) and the two
\* checkboxes
Form(w, y, d, l, c) ==
    [words_input |-> w, year_input |-> y, depth_input |-> d, leet |-> l, caps |-> c]

\* the forms the model tries
Forms ==
    { Form(<<>>, <<>>, "2", TRUE, TRUE),
      Form(<<" ">>, <<>>, "2", TRUE, TRUE),
      Form(<<",">>, <<>>, "2", TRUE, TRUE),
      Form(<<" ", ",", " ">>, <<"7">>, "3", FALSE, TRUE),
      Form(<<"a">>, <<>>, "1", FALSE, FALSE),
      Form(<<" ", "a", ",">>, <<"7", " ">>, "1", FALSE, FALSE),
      Form(<<"a", ",", "b">>, <<>>, "1", FALSE, FALSE),
      Form(<<"a", ",", "a", ",", "a", ",", "a">>, <<>>, "1", FALSE, FALSE) }

\* words = [w.strip() for w in words_input.split(",") if w.strip()]
RECURSIVE StripNonEmpty(_)
StripNonEmpty(pieces) ==
    IF pieces = <<>> THEN <<>>
    ELSE IF StrStrip(Head(pieces)) # <<>>
         THEN <<StrStrip(Head(pieces))>> \o StripNonEmpty(Tail(pieces))
         ELSE StripNonEmpty(Tail(pieces))

ParseWords(words_input) == StripNonEmpty(StrSplitComma(words_input))

\* depth = max(1, min(3, int(depth_input))), and 2 when int() raises
ParseDepth(depth_input) ==
    CASE depth_input = "1" -> Max(1, Min(3, 1))
      [] depth_input = "2" -> Max(1, Min(3, 2))
      [] depth_input = "3" -> Max(1, Min(3, 3))
      [] OTHER -> 2

(***************************************************************************)
(* GenerationEngine.generate: partition of the words into chunks.          *)
(***************************************************************************)
\* WordChunks changed: the window advances by its full size, so that the chunks
\* do not overlap
WordChunksNoOverlap(ws) ==
    IF Len(ws) <= 3 THEN <<ws>>
    ELSE [k \in 1..((Len(ws) + 2) \div 3) |->
             SubSeq(ws, 3 * (k - 1) + 1, Min(3 * (k - 1) + 3, Len(ws)))]

WordChunks(ws) ==
    IF Len(ws) <= 3 THEN <<ws>>
    ELSE [k \in 1..((Len(ws) + 1) \div 2) |->
             SubSeq(ws, 2 * (k - 1) + 1, Min(2 * (k - 1) + 3, Len(ws)))]

(***************************************************************************)
(* State.                                                                  *)
(***************************************************************************)
VARIABLES
    \* WordlisterApp
    ui,               \* where the UI thread is: "idle", inside start_generation
                      \* ("start_tail") or inside stop_generation
    is_generating,
    status,           \* what #status-label shows
    password_count,
    check_timer,      \* a check_completion timer is pending
    progress_timer,   \* the update_progress_callback interval is running
    start_disabled,   \* #start-btn and #ripper-btn
    stop_disabled,    \* #stop-btn
    engine,           \* self.engine is not None
    gen,              \* where generation_thread is ("none": not created)
    \* arguments of generate
    words, year, depth, use_leet, use_caps, num_threads,
    \* GenerationEngine
    stop_flag,
    counter,
    result_queue,
    writer,           \* where writer_thread is ("none": not created)
    w_item,           \* the password writer_worker holds
    lines,            \* the lines of the output file
    \* the executor of generate and its tasks
    word_chunks,
    task,             \* where each worker_task is
    remaining,        \* the part of variations its loop has not reached
    cur,              \* the password its loop is at
    count,
    collected,        \* the futures as_completed has yielded to the loop
    errors,           \* the tasks whose exception generate printed
    \* history
    cancel_requested, \* stop() was called
    join_expired,     \* a join of writer_thread ran into its timeout
    owed,             \* the items that were in the queue, or in the writer's
                      \* hands, when stop_flag was set and are not counted yet
    \* the run before the current one, once start_generation has replaced
    \* self.engine and self.generation_thread: its threads go on
    second,           \* start_generation has created a second engine
    old_gen,          \* where the earlier generation_thread is
    old_writer,       \* where the earlier writer_thread is
    old_tasks,        \* how many of the earlier worker tasks have not returned
    \* WordlistTUI (wordlister_strong.py)
    generating,
    tui,              \* where start_generation is: "idle" (not running) or
                      \* "sleep" (suspended in asyncio.sleep(0) of the generator)
    btn_start_disabled,
    btn_stop_disabled,
    base_words, s_use_case, s_use_leet,
    total,            \* progress.total
    s_count,          \* count of start_generation
    outfile,          \* the lines of outfile, as a bag: line -> occurrences
    notice,           \* the last notification: "none", "error" or "done"
    \* generate_words_smart
    seen,
    g_stage,          \* the loop the generator is in: "words" or "combos"
    g_i,              \* the index of the word the first loop is at
    g_combos,         \* the part of combos the second loop has not reached
    g_vars,           \* the part of mutate_final(...) the inner loop has not reached
    \* history of the single-threaded run
    repeated,         \* the generator yielded a string it had yielded before
    stopped_at,       \* s_count when Stop cleared generating in this run (-1: not)
    \* a call of one of the functions of the two programs
    p_args,           \* the arguments
    ret               \* the function called last and what it returned

appVars == <<ui, is_generating, status, password_count, check_timer,
             progress_timer, start_disabled, stop_disabled, engine, gen>>

argVars == <<words, year, depth, use_leet, use_caps, num_threads>>

engineVars == <<stop_flag, counter, result_queue, writer, w_item, lines>>

taskVars == <<word_chunks, task, remaining, cur, count, collected, errors>>

histVars == <<cancel_requested, join_expired, owed>>

earlierVars == <<second, old_gen, old_writer, old_tasks>>

\* the state of the parallel program (wordlister.py)
pipelineVars == <<appVars, argVars, engineVars, taskVars, histVars, earlierVars>>

\* the state of the single-threaded program (wordlister_strong.py)
tuiVars == <<generating, tui, btn_start_disabled, btn_stop_disabled,
             base_words, s_use_case, s_use_leet, total, s_count, outfile, notice,
             seen, g_stage, g_i, g_combos, g_vars, repeated, stopped_at>>

callVars == <<p_args, ret>>

\* what the parallel program leaves alone
restVars == <<tuiVars, callVars, earlierVars>>

vars == <<pipelineVars, tuiVars, callVars>>

Tasks == 1..Len(word_chunks)

\* sum of count over the tasks: the items pushed onto result_queue
RECURSIVE SumTo(_, _)
SumTo(f, n) == IF n = 0 THEN 0 ELSE f[n] + SumTo(f, n - 1)

Pushed == SumTo(count, Len(word_chunks))

NoItem == <<"none">>

\* the parallel program before the first run
PipelineInit ==
    /\ ui = "idle"
    /\ is_generating = FALSE
    /\ status = "Idle"
    /\ password_count = 0
    /\ check_timer = FALSE
    /\ progress_timer = FALSE
    /\ start_disabled = FALSE
    /\ stop_disabled = TRUE
    /\ engine = FALSE
    /\ gen = "none"
    /\ words = <<>>
    /\ year = <<>>
    /\ depth = 2
    /\ use_leet = TRUE
    /\ use_caps = TRUE
    /\ num_threads = 1
    /\ stop_flag = FALSE
    /\ counter = 0
    /\ result_queue = <<>>
    /\ writer = "none"
    /\ w_item = NoItem
    /\ lines = <<>>
    /\ word_chunks = <<>>
    /\ task = <<>>
    /\ remaining = <<>>
    /\ cur = <<>>
    /\ count = <<>>
    /\ collected = {}
    /\ errors = {}
    /\ cancel_requested = FALSE
    /\ join_expired = FALSE
    /\ owed = 0
    /\ second = FALSE
    /\ old_gen = "none"
    /\ old_writer = "none"
    /\ old_tasks = 0

\* WordlistTUI after compose: no run yet
TuiInit ==
    /\ generating = FALSE
    /\ tui = "idle"
    /\ btn_start_disabled = FALSE
    /\ btn_stop_disabled = TRUE
    /\ base_words = <<>>
    /\ s_use_case = TRUE
    /\ s_use_leet = TRUE
    /\ total = 0
    /\ s_count = 0
    /\ outfile = <<>>
    /\ notice = "none"
    /\ seen = {}
    /\ g_stage = "words"
    /\ g_i = 0
    /\ g_combos = {}
    /\ g_vars = {}
    /\ repeated = FALSE
    /\ stopped_at = -1

\* no function called
NoCall == [fn |-> "none", val |-> {}]

NoArgs ==
    [words |-> <<>>, year |-> <<>>, depth |-> 2, use_leet |-> TRUE, use_caps |-> TRUE]

CallInit ==
    /\ p_args = NoArgs
    /\ ret = NoCall

Init ==
    /\ PipelineInit
    /\ TuiInit
    /\ CallInit

(***************************************************************************)
(* WordlisterApp: the handlers the UI thread runs.                         *)
(***************************************************************************)
\* GenerationEngine.__init__
EngineInit ==
    /\ stop_flag' = FALSE
    /\ counter' = 0
    /\ result_queue' = <<>>
    /\ writer' = "none"
    /\ w_item' = NoItem
    /\ lines' = <<>>

\* GenerationEngine.get_count
get_count == counter

\* start_generation rejects a words field that is blank
StartGenerationRejected ==
    /\ ui = "idle"
    /\ ~start_disabled \/ ~is_generating
    /\ ~engine
    /\ \E form \in Forms :
          /\ StrStrip(form.words_input) = <<>>
          /\ status' = "Error"
    /\ UNCHANGED <<ui, is_generating, password_count, check_timer, progress_timer,
                   start_disabled, stop_disabled, engine, gen>>
    /\ UNCHANGED <<argVars, restVars, engineVars, taskVars, histVars>>

\* start_generation up to generation_thread.start(); the model follows the
\* first engine the application creates
StartGeneration ==
    /\ ui = "idle"
    /\ ~start_disabled \/ ~is_generating
    /\ ~engine
    /\ \E form \in Forms, threads \in 1..MaxThreads :
          /\ StrStrip(form.words_input) # <<>>
          /\ words' = ParseWords(form.words_input)
          /\ year' = StrStrip(form.year_input)
          /\ depth' = ParseDepth(form.depth_input)
          /\ use_leet' = form.leet
          /\ use_caps' = form.caps
          /\ num_threads' = threads
    /\ engine' = TRUE
    /\ EngineInit
    /\ gen' = "start_writer"
    /\ ui' = "start_tail"
    /\ UNCHANGED <<is_generating, status, password_count, check_timer,
                   progress_timer, start_disabled, stop_disabled>>
    /\ UNCHANGED <<taskVars, histVars, restVars>>

\* on_generation_complete
OnGenerationComplete ==
    /\ is_generating' = FALSE
    /\ password_count' = IF engine THEN get_count ELSE password_count
    /\ status' = "Complete"
    /\ start_disabled' = FALSE
    /\ stop_disabled' = TRUE

\* the rest of start_generation: the flag, the buttons, the timers and the
\* first call of check_completion
StartGenerationTail ==
    /\ ui = "start_tail"
    /\ ui' = "idle"
    /\ progress_timer' = TRUE
    /\ IF gen = "dead"
       THEN /\ OnGenerationComplete
            /\ UNCHANGED check_timer
       ELSE /\ is_generating' = TRUE
            /\ start_disabled' = TRUE
            /\ stop_disabled' = FALSE
            /\ status' = "Generating"
            /\ check_timer' = TRUE
            /\ UNCHANGED password_count
    /\ UNCHANGED <<engine, gen>>
    /\ UNCHANGED <<argVars, restVars, engineVars, taskVars, histVars>>

\* check_completion, run by its timer
CheckCompletion ==
    /\ ui = "idle"
    /\ check_timer
    /\ IF gen = "dead"
       THEN /\ OnGenerationComplete
            /\ check_timer' = FALSE
       ELSE /\ check_timer' = is_generating
            /\ UNCHANGED <<is_generating, password_count, status,
                           start_disabled, stop_disabled>>
    /\ UNCHANGED <<ui, progress_timer, engine, gen>>
    /\ UNCHANGED <<argVars, restVars, engineVars, taskVars, histVars>>

\* update_progress_callback, run by its interval; get_count reads the counter
UpdateProgress ==
    /\ ui = "idle"
    /\ progress_timer
    /\ is_generating
    /\ engine
    /\ password_count' = get_count
    /\ UNCHANGED <<ui, is_generating, status, check_timer, progress_timer,
                   start_disabled, stop_disabled, engine, gen>>
    /\ UNCHANGED <<argVars, restVars, engineVars, taskVars, histVars>>

\* what setting stop_flag records
FlagSet ==
    /\ stop_flag' = TRUE
    /\ owed' = IF stop_flag THEN owed
               ELSE Len(result_queue) + (IF w_item = NoItem THEN 0 ELSE 1)

\* stop_generation up to the join inside GenerationEngine.stop
StopGeneration ==
    /\ ui = "idle"
    /\ ~stop_disabled \/ is_generating
    /\ IF engine
       THEN /\ FlagSet
            /\ cancel_requested' = TRUE
            /\ ui' = IF writer = "none" THEN "stop_tail" ELSE "stop_join"
       ELSE /\ ui' = "stop_tail"
            /\ UNCHANGED <<stop_flag, owed, cancel_requested>>
    /\ UNCHANGED <<is_generating, status, password_count, check_timer,
                   progress_timer, start_disabled, stop_disabled, engine, gen>>
    /\ UNCHANGED <<counter, result_queue, writer, w_item, lines, join_expired>>
    /\ UNCHANGED <<argVars, restVars, taskVars>>

\* writer_thread.join(timeout=5) returns: the thread ended
StopJoin ==
    /\ ui = "stop_join"
    /\ writer \in {"done", "crashed"}
    /\ ui' = "stop_tail"
    /\ UNCHANGED <<is_generating, status, password_count, check_timer,
                   progress_timer, start_disabled, stop_disabled, engine, gen>>
    /\ UNCHANGED <<argVars, restVars, engineVars, taskVars, histVars>>

\* writer_thread.join(timeout=5) returns: the timeout expired
StopJoinTimeout ==
    /\ ui = "stop_join"
    /\ writer \notin {"done", "crashed"}
    /\ ui' = "stop_tail"
    /\ join_expired' = TRUE
    /\ UNCHANGED <<is_generating, status, password_count, check_timer,
                   progress_timer, start_disabled, stop_disabled, engine, gen>>
    /\ UNCHANGED <<argVars, restVars, engineVars, taskVars, cancel_requested, owed>>

\* the rest of stop_generation
StopGenerationTail ==
    /\ ui = "stop_tail"
    /\ ui' = "idle"
    /\ is_generating' = FALSE
    /\ start_disabled' = FALSE
    /\ stop_disabled' = TRUE
    /\ status' = IF engine THEN "Stopped" ELSE status
    /\ UNCHANGED <<password_count, check_timer, progress_timer, engine, gen>>
    /\ UNCHANGED <<argVars, restVars, engineVars, taskVars, histVars>>

(***************************************************************************)
(* generation_thread: run_generation, which calls GenerationEngine.generate *)
(***************************************************************************)
\* the futures of generate
Futures == {i \in Tasks : task[i] # "unsubmitted"}

Finished(i) == task[i] \in {"done", "failed"}

\* a pool thread is running the task
Running(i) == task[i] \in {"begin", "loop", "put"}

\* generate returned
Returned == gen \in {"clear", "dead"}

\* writer_thread is created and started, the words are cut into chunks and
\* the executor is entered
GenStartWriter ==
    /\ gen = "start_writer"
    /\ writer' = "open"
    /\ word_chunks' = WordChunks(words)
    /\ task' = [i \in 1..Len(WordChunks(words)) |-> "unsubmitted"]
    /\ remaining' = [i \in 1..Len(WordChunks(words)) |-> {}]
    /\ cur' = [i \in 1..Len(WordChunks(words)) |-> NoItem]
    /\ count' = [i \in 1..Len(WordChunks(words)) |-> 0]
    /\ collected' = {}
    /\ errors' = {}
    /\ gen' = "submit"
    /\ UNCHANGED <<ui, is_generating, status, password_count, check_timer,
                   progress_timer, start_disabled, stop_disabled, engine>>
    /\ UNCHANGED <<stop_flag, counter, result_queue, w_item, lines>>
    /\ UNCHANGED <<argVars, restVars, histVars>>

\* the submit loop submits the next chunk
GenSubmit ==
    /\ gen = "submit"
    /\ ~stop_flag
    /\ \E i \in Tasks :
          /\ task[i] = "unsubmitted"
          /\ \A j \in 1..(i - 1) : task[j] # "unsubmitted"
          /\ task' = [task EXCEPT ![i] = "queued"]
    /\ UNCHANGED <<appVars, argVars, restVars, engineVars, histVars>>
    /\ UNCHANGED <<word_chunks, remaining, cur, count, collected, errors>>

\* the submit loop ends: no chunk is left, or stop_flag is set
GenSubmitEnd ==
    /\ gen = "submit"
    /\ stop_flag \/ \A i \in Tasks : task[i] # "unsubmitted"
    /\ gen' = "as_completed"
    /\ UNCHANGED <<ui, is_generating, status, password_count, check_timer,
                   progress_timer, start_disabled, stop_disabled, engine>>
    /\ UNCHANGED <<argVars, restVars, engineVars, taskVars, histVars>>

\* as_completed yields a finished future; its exception is caught and printed
GenCollect ==
    /\ gen = "as_completed"
    /\ ~stop_flag
    /\ \E i \in Futures \ collected :
          /\ Finished(i)
          /\ collected' = collected \cup {i}
          /\ errors' = IF task[i] = "failed" THEN errors \cup {i} ELSE errors
    /\ UNCHANGED <<appVars, argVars, restVars, engineVars, histVars>>
    /\ UNCHANGED <<word_chunks, task, remaining, cur, count>>

\* the as_completed loop ends: every future was yielded, or one is yielded
\* while stop_flag is set
GenCollectEnd ==
    /\ gen = "as_completed"
    /\ \/ Futures \subseteq collected
       \/ stop_flag /\ \E i \in Futures \ collected : Finished(i)
    /\ gen' = "shutdown"
    /\ UNCHANGED <<ui, is_generating, status, password_count, check_timer,
                   progress_timer, start_disabled, stop_disabled, engine>>
    /\ UNCHANGED <<argVars, restVars, engineVars, taskVars, histVars>>

\* leaving the with block: the executor waits for every submitted task
GenShutdown ==
    /\ gen = "shutdown"
    /\ \A i \in Futures : Finished(i)
    /\ gen' = "set_stop"
    /\ UNCHANGED <<ui, is_generating, status, password_count, check_timer,
                   progress_timer, start_disabled, stop_disabled, engine>>
    /\ UNCHANGED <<argVars, restVars, engineVars, taskVars, histVars>>

\* self.stop_flag.set() at the end of generate
GenSetStop ==
    /\ gen = "set_stop"
    /\ FlagSet
    /\ gen' = "join"
    /\ UNCHANGED <<ui, is_generating, status, password_count, check_timer,
                   progress_timer, start_disabled, stop_disabled, engine>>
    /\ UNCHANGED <<counter, result_queue, writer, w_item, lines>>
    /\ UNCHANGED <<argVars, restVars, taskVars, cancel_requested, join_expired>>

\* GenJoin changed: generate clears stop_flag once the writer has ended
GenJoinClearsFlag ==
    /\ gen = "join"
    /\ writer \in {"done", "crashed"}
    /\ gen' = "clear"
    /\ stop_flag' = FALSE
    /\ UNCHANGED <<ui, is_generating, status, password_count, check_timer,
                   progress_timer, start_disabled, stop_disabled, engine>>
    /\ UNCHANGED <<counter, result_queue, writer, w_item, lines>>
    /\ UNCHANGED <<argVars, restVars, taskVars, histVars>>

\* writer_thread.join(timeout=5) returns: the thread ended
GenJoin ==
    /\ gen = "join"
    /\ writer \in {"done", "crashed"}
    /\ gen' = "clear"
    /\ UNCHANGED <<ui, is_generating, status, password_count, check_timer,
                   progress_timer, start_disabled, stop_disabled, engine>>
    /\ UNCHANGED <<argVars, restVars, engineVars, taskVars, histVars>>

\* writer_thread.join(timeout=5) returns: the timeout expired
GenJoinTimeout ==
    /\ gen = "join"
    /\ writer \notin {"done", "crashed"}
    /\ gen' = "clear"
    /\ join_expired' = TRUE
    /\ UNCHANGED <<ui, is_generating, status, password_count, check_timer,
                   progress_timer, start_disabled, stop_disabled, engine>>
    /\ UNCHANGED <<argVars, restVars, engineVars, taskVars, cancel_requested, owed>>

\* run_generation clears is_generating and the thread ends
GenClear ==
    /\ gen = "clear"
    /\ is_generating' = FALSE
    /\ gen' = "dead"
    /\ UNCHANGED <<ui, status, password_count, check_timer, progress_timer,
                   start_disabled, stop_disabled, engine>>
    /\ UNCHANGED <<argVars, restVars, engineVars, taskVars, histVars>>

(***************************************************************************)
(* GenerationEngine.worker_task, run by the threads of the pool.           *)
(***************************************************************************)
\* a free thread of the pool takes the oldest waiting task
TaskStart(i) ==
    /\ task[i] = "queued"
    /\ \A j \in 1..(i - 1) : task[j] # "queued"
    /\ Cardinality({j \in Tasks : Running(j)}) < num_threads
    /\ task' = [task EXCEPT ![i] = "begin"]
    /\ UNCHANGED <<appVars, argVars, restVars, engineVars, histVars>>
    /\ UNCHANGED <<word_chunks, remaining, cur, count, collected, errors>>

\* the first check of stop_flag, then generate_variations
TaskBegin(i) ==
    /\ task[i] = "begin"
    /\ IF stop_flag
       THEN /\ task' = [task EXCEPT ![i] = "done"]
            /\ UNCHANGED remaining
       ELSE /\ task' = [task EXCEPT ![i] = "loop"]
            /\ remaining' = [remaining EXCEPT ![i] =
                   generate_variations(word_chunks[i], year, depth,
                                       use_leet, use_caps)]
    /\ UNCHANGED <<appVars, argVars, restVars, engineVars, histVars>>
    /\ UNCHANGED <<word_chunks, cur, count, collected, errors>>

\* the task raises an exception before it pushes anything
TaskRaise(i) ==
    /\ task[i] = "begin"
    /\ ~stop_flag
    /\ task' = [task EXCEPT ![i] = "failed"]
    /\ UNCHANGED <<appVars, argVars, restVars, engineVars, histVars>>
    /\ UNCHANGED <<word_chunks, remaining, cur, count, collected, errors>>

\* the head of the loop over variations: the next password, in the order the
\* set happens to iterate, and the check of stop_flag
TaskLoop(i) ==
    /\ task[i] = "loop"
    /\ IF remaining[i] = {} \/ stop_flag
       THEN /\ task' = [task EXCEPT ![i] = "done"]
            /\ UNCHANGED <<remaining, cur>>
       ELSE \E password \in remaining[i] :
               /\ remaining' = [remaining EXCEPT ![i] = @ \ {password}]
               /\ cur' = [cur EXCEPT ![i] = password]
               /\ task' = [task EXCEPT ![i] = "put"]
    /\ UNCHANGED <<appVars, argVars, restVars, engineVars, histVars>>
    /\ UNCHANGED <<word_chunks, count, collected, errors>>

\* TaskPut changed: the push does not wait for room in the queue
TaskPutUnbounded(i) ==
    /\ task[i] = "put"
    /\ result_queue' = Append(result_queue, cur[i])
    /\ count' = [count EXCEPT ![i] = @ + 1]
    /\ cur' = [cur EXCEPT ![i] = NoItem]
    /\ task' = [task EXCEPT ![i] = "loop"]
    /\ UNCHANGED <<appVars, argVars, restVars, histVars>>
    /\ UNCHANGED <<stop_flag, counter, writer, w_item, lines>>
    /\ UNCHANGED <<word_chunks, remaining, collected, errors>>

\* result_queue.put(password), which waits while the queue is full
TaskPut(i) ==
    /\ task[i] = "put"
    /\ Len(result_queue) < QueueCapacity
    /\ result_queue' = Append(result_queue, cur[i])
    /\ count' = [count EXCEPT ![i] = @ + 1]
    /\ cur' = [cur EXCEPT ![i] = NoItem]
    /\ task' = [task EXCEPT ![i] = "loop"]
    /\ UNCHANGED <<appVars, argVars, restVars, histVars>>
    /\ UNCHANGED <<stop_flag, counter, writer, w_item, lines>>
    /\ UNCHANGED <<word_chunks, remaining, collected, errors>>

(***************************************************************************)
(* GenerationEngine.writer_worker, run by writer_thread.                   *)
(***************************************************************************)
\* open(self.output_file, 'w') succeeds and truncates the file
WriterOpen ==
    /\ writer = "open"
    /\ writer' = "loop"
    /\ lines' = <<>>
    /\ UNCHANGED <<appVars, argVars, restVars, taskVars, histVars>>
    /\ UNCHANGED <<stop_flag, counter, result_queue, w_item>>

\* open(self.output_file, 'w') raises and the thread ends
WriterOpenFails ==
    /\ writer = "open"
    /\ writer' = "crashed"
    /\ UNCHANGED <<appVars, argVars, restVars, taskVars, histVars>>
    /\ UNCHANGED <<stop_flag, counter, result_queue, w_item, lines>>

\* WriterLoop changed: the loop ends as soon as stop_flag is set, whatever
\* the queue still holds
WriterLoopStopsOnFlag ==
    /\ writer = "loop"
    /\ writer' = IF ~stop_flag THEN "get" ELSE "done"
    /\ UNCHANGED <<appVars, argVars, restVars, taskVars, histVars>>
    /\ UNCHANGED <<stop_flag, counter, result_queue, w_item, lines>>

\* the loop condition: not stop_flag.is_set() or not result_queue.empty()
WriterLoop ==
    /\ writer = "loop"
    /\ writer' = IF ~stop_flag \/ result_queue # <<>> THEN "get" ELSE "done"
    /\ UNCHANGED <<appVars, argVars, restVars, taskVars, histVars>>
    /\ UNCHANGED <<stop_flag, counter, result_queue, w_item, lines>>

\* WriterGet changed: the oldest item is read and left in the queue
WriterGetPeeks ==
    /\ writer = "get"
    /\ result_queue # <<>>
    /\ w_item' = Head(result_queue)
    /\ writer' = "write"
    /\ UNCHANGED <<appVars, argVars, restVars, taskVars, histVars>>
    /\ UNCHANGED <<stop_flag, counter, result_queue, lines>>

\* result_queue.get(timeout=0.1) returns the oldest item
WriterGet ==
    /\ writer = "get"
    /\ result_queue # <<>>
    /\ w_item' = Head(result_queue)
    /\ result_queue' = Tail(result_queue)
    /\ writer' = "write"
    /\ UNCHANGED <<appVars, argVars, restVars, taskVars, histVars>>
    /\ UNCHANGED <<stop_flag, counter, lines>>

\* WriterGetEmpty changed: the counter is incremented on Empty as well
WriterGetEmptyCounts ==
    /\ writer = "get"
    /\ result_queue = <<>>
    /\ writer' = "loop"
    /\ counter' = counter + 1
    /\ UNCHANGED <<appVars, argVars, restVars, taskVars, histVars>>
    /\ UNCHANGED <<stop_flag, result_queue, w_item, lines>>

\* result_queue.get(timeout=0.1) raises Empty
WriterGetEmpty ==
    /\ writer = "get"
    /\ result_queue = <<>>
    /\ writer' = "loop"
    /\ UNCHANGED <<appVars, argVars, restVars, taskVars, histVars>>
    /\ UNCHANGED <<stop_flag, counter, result_queue, w_item, lines>>

\* f.write and f.flush
WriterWrite ==
    /\ writer = "write"
    /\ lines' = Append(lines, w_item)
    /\ writer' = "inc"
    /\ UNCHANGED <<appVars, argVars, restVars, taskVars, histVars>>
    /\ UNCHANGED <<stop_flag, counter, result_queue, w_item>>

\* with self.lock: self.counter += 1
WriterInc ==
    /\ writer = "inc"
    /\ counter' = counter + 1
    /\ w_item' = NoItem
    /\ writer' = "loop"
    /\ owed' = IF owed > 0 THEN owed - 1 ELSE 0
    /\ UNCHANGED <<appVars, argVars, restVars, taskVars, cancel_requested, join_expired>>
    /\ UNCHANGED <<stop_flag, result_queue, lines>>

(***************************************************************************)
(* The specification.                                                      *)
(***************************************************************************)
Next ==
    \/ StartGenerationRejected
    \/ StartGeneration
    \/ StartGenerationTail
    \/ CheckCompletion
    \/ UpdateProgress
    \/ StopGeneration
    \/ StopJoin
    \/ StopJoinTimeout
    \/ StopGenerationTail
    \/ GenStartWriter
    \/ GenSubmit
    \/ GenSubmitEnd
    \/ GenCollect
    \/ GenCollectEnd
    \/ GenShutdown
    \/ GenSetStop
    \/ GenJoin
    \/ GenJoinTimeout
    \/ GenClear
    \/ \E i \in Tasks : TaskStart(i)
    \/ \E i \in Tasks : TaskBegin(i)
    \/ \E i \in Tasks : TaskRaise(i)
    \/ \E i \in Tasks : TaskLoop(i)
    \/ \E i \in Tasks : TaskPut(i)
    \/ WriterOpen
    \/ WriterOpenFails
    \/ WriterLoop
    \/ WriterGet
    \/ WriterGetEmpty
    \/ WriterWrite
    \/ WriterInc

Spec == Init /\ [][Next]_vars

\* the steps of each thread; the scheduler lets a thread that can step do so
WriterStep ==
    \/ WriterOpen
    \/ WriterOpenFails
    \/ WriterLoop
    \/ WriterGet
    \/ WriterGetEmpty
    \/ WriterWrite
    \/ WriterInc

GenStep ==
    \/ GenStartWriter
    \/ GenSubmit
    \/ GenSubmitEnd
    \/ GenCollect
    \/ GenCollectEnd
    \/ GenShutdown
    \/ GenSetStop
    \/ GenJoin
    \/ GenJoinTimeout
    \/ GenClear

TaskStep ==
    \E i \in Tasks :
        TaskStart(i) \/ TaskBegin(i) \/ TaskRaise(i) \/ TaskLoop(i) \/ TaskPut(i)

\* the UI thread finishes the handler it is in and runs its due timers; it is
\* the user who starts and stops
UIStep ==
    \/ StartGenerationTail
    \/ StopJoin
    \/ StopJoinTimeout
    \/ StopGenerationTail
    \/ CheckCompletion

FairSpec ==
    /\ Spec
    /\ WF_vars(WriterStep)
    /\ WF_vars(GenStep)
    /\ WF_vars(TaskStep)
    /\ WF_vars(UIStep)

(***************************************************************************)
(* Two runs: start_generation called again once is_generating is false.    *)
(* self.engine and self.generation_thread then name the new run; the       *)
(* threads of the earlier run go on, and run_generation of the earlier     *)
(* thread still assigns self.is_generating. The earlier run is followed    *)
(* thread by thread, not item by item; its stop_flag is set, as            *)
(* is_generating is only cleared after the flag was set. run_generation    *)
(* reads self.engine when the thread runs it: the second start is followed *)
(* once the earlier thread has entered generate of its own engine.         *)
(***************************************************************************)
\* the forms of the two runs: one token, which gives one candidate
RunForms == {Form(<<"a">>, <<>>, "1", FALSE, FALSE)}

\* a worker task that was submitted and has not returned
Unfinished(i) == task[i] \in {"queued", "begin", "loop", "put"}

\* what becomes of the threads of the current run when self.engine and
\* self.generation_thread are assigned again
Retire ==
    /\ old_gen' = CASE gen \in {"clear", "dead"} -> gen
                     [] OTHER -> "generate"
    /\ old_writer' = CASE writer \in {"none", "open", "done", "crashed"} -> writer
                        [] OTHER -> "active"
    /\ old_tasks' = Cardinality({i \in Tasks : Unfinished(i)})

\* start_generation up to generation_thread.start(), for the first and for
\* the second engine
StartRun ==
    /\ ui = "idle"
    /\ ~start_disabled \/ ~is_generating
    /\ ~second
    /\ gen # "start_writer"
    /\ \E form \in RunForms, threads \in 1..MaxThreads :
          /\ StrStrip(form.words_input) # <<>>
          /\ words' = ParseWords(form.words_input)
          /\ year' = StrStrip(form.year_input)
          /\ depth' = ParseDepth(form.depth_input)
          /\ use_leet' = form.leet
          /\ use_caps' = form.caps
          /\ num_threads' = threads
    /\ second' = engine
    /\ IF engine THEN Retire ELSE UNCHANGED <<old_gen, old_writer, old_tasks>>
    /\ engine' = TRUE
    /\ EngineInit
    /\ gen' = "start_writer"
    /\ ui' = "start_tail"
    /\ word_chunks' = <<>>
    /\ task' = <<>>
    /\ remaining' = <<>>
    /\ cur' = <<>>
    /\ count' = <<>>
    /\ collected' = {}
    /\ errors' = {}
    /\ cancel_requested' = FALSE
    /\ join_expired' = FALSE
    /\ owed' = 0
    /\ UNCHANGED <<is_generating, status, password_count, check_timer,
                   progress_timer, start_disabled, stop_disabled>>
    /\ UNCHANGED <<tuiVars, callVars>>

\* a worker task of the earlier run returns
EarlierTaskEnd ==
    /\ old_tasks > 0
    /\ old_tasks' = old_tasks - 1
    /\ UNCHANGED <<second, old_gen, old_writer>>
    /\ UNCHANGED <<appVars, argVars, engineVars, taskVars, histVars, tuiVars, callVars>>

\* the earlier generate returns: the executor has waited for its tasks, and
\* the join of the writer has returned or timed out
EarlierGenReturn ==
    /\ old_gen = "generate"
    /\ old_tasks = 0
    /\ old_gen' = "clear"
    /\ UNCHANGED <<second, old_writer, old_tasks>>
    /\ UNCHANGED <<appVars, argVars, engineVars, taskVars, histVars, tuiVars, callVars>>

\* run_generation of the earlier thread: self.is_generating = False
EarlierGenClear ==
    /\ old_gen = "clear"
    /\ old_gen' = "dead"
    /\ is_generating' = FALSE
    /\ UNCHANGED <<second, old_writer, old_tasks>>
    /\ UNCHANGED <<ui, status, password_count, check_timer, progress_timer,
                   start_disabled, stop_disabled, engine, gen>>
    /\ UNCHANGED <<argVars, engineVars, taskVars, histVars, tuiVars, callVars>>

\* the earlier writer_thread opens output_file
EarlierWriterOpen ==
    /\ old_writer = "open"
    /\ old_writer' = "active"
    /\ UNCHANGED <<second, old_gen, old_tasks>>
    /\ UNCHANGED <<appVars, argVars, engineVars, taskVars, histVars, tuiVars, callVars>>

\* the open of the earlier writer_thread raises
EarlierWriterOpenFails ==
    /\ old_writer = "open"
    /\ old_writer' = "crashed"
    /\ UNCHANGED <<second, old_gen, old_tasks>>
    /\ UNCHANGED <<appVars, argVars, engineVars, taskVars, histVars, tuiVars, callVars>>

\* the earlier writer_thread has written what its queue held and leaves its loop
EarlierWriterEnd ==
    /\ old_writer = "active"
    /\ old_writer' = "done"
    /\ UNCHANGED <<second, old_gen, old_tasks>>
    /\ UNCHANGED <<appVars, argVars, engineVars, taskVars, histVars, tuiVars, callVars>>

EarlierStep ==
    \/ EarlierTaskEnd
    \/ EarlierGenReturn
    \/ EarlierGenClear
    \/ EarlierWriterOpen
    \/ EarlierWriterOpenFails
    \/ EarlierWriterEnd

TwoRunNext ==
    \/ StartGenerationRejected
    \/ StartRun
    \/ StopGeneration
    \/ UpdateProgress
    \/ UIStep
    \/ GenStep
    \/ TaskStep
    \/ WriterStep
    \/ EarlierStep

TwoRunSpec == Init /\ [][TwoRunNext]_vars

(***************************************************************************)
(* WordlistTUI and generate_words_smart: the single-threaded program.      *)
(***************************************************************************)
\* str.split(): the pieces between runs of whitespace, none of them empty
RECURSIVE StrSplitWs(_)
StrSplitWs(w) ==
    IF w = <<>> THEN <<>>
    ELSE IF IsSpace(Head(w)) THEN StrSplitWs(Tail(w))
    ELSE LET k == IF \E i \in 1..Len(w) : IsSpace(w[i])
                  THEN (CHOOSE i \in 1..Len(w) :
                            IsSpace(w[i]) /\ \A j \in 1..(i - 1) : ~IsSpace(w[j])) - 1
                  ELSE Len(w)
         IN  <<SubSeq(w, 1, k)>> \o StrSplitWs(SubSeq(w, k + 1, Len(w)))

\* base_words = base_input.replace(",", " ").split()
ParseBase(base_input) == StrSplitWs(StrReplace(base_input, ",", " "))

\* what the form holds when start_generation reads it
TuiForm(b, c, l) == [base |-> b, case |-> c, leet |-> l]

\* the forms the model tries
TuiForms ==
    { TuiForm(<<>>, TRUE, TRUE),
      TuiForm(<<" ", ",">>, TRUE, FALSE),
      TuiForm(<<"a">>, FALSE, FALSE),
      TuiForm(<<"a">>, FALSE, TRUE),
      TuiForm(<<"a">>, TRUE, FALSE),
      TuiForm(<<"a">>, TRUE, TRUE),
      TuiForm(<<"a", ",", "a">>, TRUE, FALSE),
      TuiForm(<<"a", " ", "A">>, TRUE, FALSE),
      TuiForm(<<" ", "a", ",", " ", "1", "2">>, FALSE, TRUE),
      TuiForm(<<"a", ",", "b", " ", "a", "b">>, FALSE, FALSE) }

\* a bag with one more v
BagAdd(bag, v) ==
    IF v \in DOMAIN bag THEN [bag EXCEPT ![v] = @ + 1] ELSE bag @@ (v :> 1)

\* NotSeen changed: the test "v not in seen" is left out
NotSeenUnchecked(vs, sn) == vs

\* the members of vs that pass the test "v not in seen"
NotSeen(vs, sn) == vs \ sn

\* the generator has nothing more to yield
Exhausted == [done |-> TRUE]

\* the inner loop yields v out of vs, the part of mutate_final(...) it has not
\* reached; the members of vs that are in seen are passed over
Yields(vs, sn, stage, i, combos) ==
    {[done |-> FALSE, v |-> v, stage |-> stage, i |-> i, combos |-> combos,
      vars |-> vs \ {v}] : v \in NotSeen(vs, sn)}

\* generate_words_smart from its last yield (or its start: i = 0) to its next
\* yield: every way the loops can go on, sets being iterated in any order
GenAdvance(ws, uc, ul, stage, i, combos, vs, sn) ==
    LET Fresh(src) == NotSeen(mutate_final(src, uc, ul), sn)
        later == {j \in (i + 1)..Len(ws) : Fresh(ws[j]) # {}}
        sp == split_words(ws)
        left == IF stage = "words"
                THEN combine_words(sp.names, sp.numbers)
                ELSE combos
    IN  IF NotSeen(vs, sn) # {}
        THEN Yields(vs, sn, stage, i, combos)
        ELSE IF stage = "words" /\ later # {}
        THEN LET j == CHOOSE j \in later : \A h \in later : j <= h
             IN  Yields(mutate_final(ws[j], uc, ul), sn, "words", j, combos)
        ELSE IF \E q \in left : Fresh(q) # {}
        THEN UNION {Yields(mutate_final(q, uc, ul), sn, "combos", Len(ws),
                           left \ {q}) :
                       q \in {r \in left : Fresh(r) # {}}}
        ELSE {Exhausted}

\* start_generation finds no base words
TuiStartRejected ==
    /\ tui = "idle"
    /\ ~btn_start_disabled
    /\ ~generating
    /\ notice # "done"
    /\ \E form \in TuiForms : ParseBase(form.base) = <<>>
    /\ notice' = "error"
    /\ UNCHANGED <<generating, tui, btn_start_disabled, btn_stop_disabled,
                   base_words, s_use_case, s_use_leet, total, s_count, outfile,
                   seen, g_stage, g_i, g_combos, g_vars, repeated, stopped_at>>
    /\ UNCHANGED <<pipelineVars, callVars>>

\* the end of start_generation, after the loop; the generator is discarded
\* with its locals
TuiFinish ==
    /\ tui' = "idle"
    /\ generating' = FALSE
    /\ btn_start_disabled' = FALSE
    /\ btn_stop_disabled' = TRUE
    /\ notice' = "done"
    /\ seen' = {}
    /\ g_stage' = "words"
    /\ g_i' = 0
    /\ g_combos' = {}
    /\ g_vars' = {}

\* on_button_pressed("start"): start_generation up to the first suspension of
\* the generator, which is after its first candidate was written; the model
\* follows the first run of the application
TuiStart ==
    /\ tui = "idle"
    /\ ~btn_start_disabled
    /\ ~generating
    /\ notice # "done"
    /\ \E form \in TuiForms :
          /\ ParseBase(form.base) # <<>>
          /\ base_words' = ParseBase(form.base)
          /\ s_use_case' = form.case
          /\ s_use_leet' = form.leet
          /\ total' = estimate_total(ParseBase(form.base), form.case, form.leet)
          /\ \E o \in GenAdvance(ParseBase(form.base), form.case, form.leet,
                                 "words", 0, {}, {}, {}) :
                IF o.done
                THEN /\ TuiFinish
                     /\ s_count' = 0
                     /\ outfile' = <<>>
                     /\ repeated' = FALSE
                ELSE /\ generating' = TRUE
                     /\ btn_start_disabled' = TRUE
                     /\ btn_stop_disabled' = FALSE
                     /\ tui' = "sleep"
                     /\ s_count' = 1
                     /\ outfile' = BagAdd(<<>>, o.v)
                     /\ seen' = {o.v}
                     /\ repeated' = FALSE
                     /\ g_stage' = o.stage
                     /\ g_i' = o.i
                     /\ g_combos' = o.combos
                     /\ g_vars' = o.vars
                     /\ UNCHANGED notice
    /\ stopped_at' = -1
    /\ UNCHANGED <<pipelineVars, callVars>>

\* TuiStep changed: the candidate is written before generating is tested
TuiStepWritesFirst ==
    /\ tui = "sleep"
    /\ \E o \in GenAdvance(base_words, s_use_case, s_use_leet,
                           g_stage, g_i, g_combos, g_vars, seen) :
          IF o.done
          THEN /\ TuiFinish
               /\ UNCHANGED <<s_count, outfile, repeated>>
          ELSE /\ repeated' = (repeated \/ o.v \in seen)
               /\ outfile' = BagAdd(outfile, o.v)
               /\ s_count' = s_count + 1
               /\ IF ~generating
                  THEN TuiFinish
                  ELSE /\ seen' = seen \cup {o.v}
                       /\ g_stage' = o.stage
                       /\ g_i' = o.i
                       /\ g_combos' = o.combos
                       /\ g_vars' = o.vars
                       /\ UNCHANGED <<generating, tui, btn_start_disabled,
                                      btn_stop_disabled, notice>>
    /\ UNCHANGED <<base_words, s_use_case, s_use_leet, total, stopped_at>>
    /\ UNCHANGED <<pipelineVars, callVars>>

\* the event loop resumes start_generation: the generator runs to its next
\* yield (or its end), and the loop body tests generating and writes
TuiStep ==
    /\ tui = "sleep"
    /\ \E o \in GenAdvance(base_words, s_use_case, s_use_leet,
                           g_stage, g_i, g_combos, g_vars, seen) :
          IF o.done
          THEN /\ TuiFinish
               /\ UNCHANGED <<s_count, outfile, repeated>>
          ELSE /\ repeated' = (repeated \/ o.v \in seen)
               /\ IF ~generating
                  THEN /\ TuiFinish
                       /\ UNCHANGED <<s_count, outfile>>
                  ELSE /\ outfile' = BagAdd(outfile, o.v)
                       /\ s_count' = s_count + 1
                       /\ seen' = seen \cup {o.v}
                       /\ g_stage' = o.stage
                       /\ g_i' = o.i
                       /\ g_combos' = o.combos
                       /\ g_vars' = o.vars
                       /\ UNCHANGED <<generating, tui, btn_start_disabled,
                                      btn_stop_disabled, notice>>
    /\ UNCHANGED <<base_words, s_use_case, s_use_leet, total, stopped_at>>
    /\ UNCHANGED <<pipelineVars, callVars>>

\* on_button_pressed("stop"), while start_generation is suspended
TuiStop ==
    /\ ~btn_stop_disabled
    /\ generating' = FALSE
    /\ stopped_at' = IF tui = "sleep" /\ generating THEN s_count ELSE stopped_at
    /\ UNCHANGED <<tui, btn_start_disabled, btn_stop_disabled,
                   base_words, s_use_case, s_use_leet, total, s_count, outfile,
                   notice, seen, g_stage, g_i, g_combos, g_vars, repeated>>
    /\ UNCHANGED <<pipelineVars, callVars>>

SmartNext ==
    \/ TuiStartRejected
    \/ TuiStart
    \/ TuiStep
    \/ TuiStop

SmartSpec == Init /\ [][SmartNext]_vars

(***************************************************************************)
(* The functions of the two programs, called on their own.                 *)
(***************************************************************************)
\* the lists of at most n tokens, each token "a" or "b"
TokenLists(n) == UNION {[1..k -> {<<"a">>, <<"b">>}] : k \in 0..n}

\* lists of longer tokens, of numbers and of repeated tokens
SpecialLists ==
    { <<<<"a", "d", "m", "i", "n">>, <<"2", "0", "2", "4">>>>,
      <<<<"a", "b">>>>,
      <<<<"A", "b">>, <<"t", "7">>>>,
      <<<<"a">>, <<"a", "b">>>>,
      <<<<"a">>, <<"1", "2">>>>,
      <<<<"7">>, <<"1", "2">>, <<"b">>>>,
      <<<<"a">>, <<"b">>, <<"1", "2">>>>,
      <<<<"a">>, <<"1", "2">>, <<"a">>, <<"2", "0", "2", "4">>>>,
      <<<<"a", "b">>, <<"b">>, <<"a">>, <<"a", "b">>>> }

\* the arguments the functions are called with
PureArgs ==
    {[words |-> ws, year |-> y, depth |-> d, use_leet |-> l, use_caps |-> c] :
        ws \in TokenLists(MaxTokens) \cup SpecialLists,
        y \in {<<>>, <<"7">>},
        d \in 1..3,
        l \in BOOLEAN,
        c \in BOOLEAN}

PureInit ==
    /\ PipelineInit
    /\ TuiInit
    /\ p_args \in PureArgs
    /\ ret = NoCall

\* the partition of words into word_chunks, as generate computes it
CallPartition ==
    /\ ret' = [fn |-> "partition", val |-> WordChunks(p_args.words)]
    /\ UNCHANGED <<pipelineVars, tuiVars, p_args>>

\* PasswordGenerator.generate_variations(words, year, depth, use_leet, use_caps)
CallGenerateVariations ==
    /\ ret' = [fn |-> "generate_variations",
               val |-> generate_variations(p_args.words, p_args.year, p_args.depth,
                                           p_args.use_leet, p_args.use_caps)]
    /\ UNCHANGED <<pipelineVars, tuiVars, p_args>>

\* names, numbers = split_words(base_words); combine_words(names, numbers)
CallCombineWords ==
    /\ ret' = [fn |-> "combine_words",
               val |-> combine_words(split_words(p_args.words).names,
                                     split_words(p_args.words).numbers)]
    /\ UNCHANGED <<pipelineVars, tuiVars, p_args>>

\* the tokens of a list, joined into one token
RECURSIVE Flatten(_)
Flatten(ws) == IF ws = <<>> THEN <<>> ELSE Head(ws) \o Flatten(Tail(ws))

\* the tokens leet_variants and apply_leet are called with: the tokens of the
\* list, and the token its first MaxJoined tokens make when joined
PureTokens ==
    Range(p_args.words)
    \cup {Flatten(SubSeq(p_args.words, 1, Min(MaxJoined, Len(p_args.words))))}

\* leet_variants(word)
CallLeetVariants ==
    /\ \E word \in PureTokens :
          ret' = [fn |-> "leet_variants", arg |-> word, val |-> leet_variants(word)]
    /\ UNCHANGED <<pipelineVars, tuiVars, p_args>>

\* PasswordGenerator.apply_leet(word, 1)
CallApplyLeet ==
    /\ \E word \in PureTokens :
          ret' = [fn |-> "apply_leet", arg |-> word, val |-> apply_leet(word, 1)]
    /\ UNCHANGED <<pipelineVars, tuiVars, p_args>>

PureNext ==
    \/ CallPartition
    \/ CallGenerateVariations
    \/ CallCombineWords
    \/ CallLeetVariants
    \/ CallApplyLeet

PureSpec == PureInit /\ [][PureNext]_vars

(***************************************************************************)
(* Properties.                                                             *)
(***************************************************************************)
\* writer_worker opened the output file
WriterOpened == writer \in {"loop", "get", "write", "inc", "done"}

\* a worker is inside result_queue.put, the queue is full and the writer will
\* never take an item again
BlockedForever(i) ==
    /\ task[i] = "put"
    /\ Len(result_queue) = QueueCapacity
    /\ writer \in {"crashed", "done"}

\* C1: once stop_flag is set no worker pushes a new item onto result_queue,
\* and counter grows only by the items that were in the queue (or already in
\* the writer's hands) when the flag was set.
C1_NoPushAfterCancel ==
    [][stop_flag => /\ Pushed' = Pushed
                    /\ counter' # counter => owed > 0]_vars

\* C2: when generate has returned, with no stop() call and no join timeout,
\* every chunk was submitted and its task has returned, the queue is drained
\* and counter equals the number of items the workers pushed.
C2_CompletionAfterDrain ==
    (Returned /\ ~cancel_requested /\ ~join_expired)
        => /\ Futures = Tasks
           /\ \A i \in Tasks : Finished(i)
           /\ result_queue = <<>>
           /\ w_item = NoItem
           /\ counter = Pushed

\* The statement of C2 restricted to the runs whose writer did not fail: it
\* holds there, so C2 fails through the writer's failure only.
CompletionAfterDrainUnlessCrashed ==
    writer # "crashed" => C2_CompletionAfterDrain

\* C3: when the writer failed to open the output file the run is not reported
\* as a successful completion and no worker stays blocked on the full queue.
C3_SinkFailureAborts ==
    writer = "crashed"
        => /\ status # "Complete"
           /\ \A i \in Tasks : ~BlockedForever(i)

\* C4: a run that stop() was requested for is never reported as complete, and
\* a run without a stop request is never reported as stopped.
C4_CancelledIsNotCompleted ==
    /\ cancel_requested => status # "Complete"
    /\ ~cancel_requested => status # "Stopped"

\* the step sets stop_flag: stop() inside stop_generation, or the end of generate
SetsFlag ==
    \/ ui = "idle" /\ ui' \in {"stop_join", "stop_tail"} /\ engine
    \/ gen = "set_stop" /\ gen' = "join"

\* C5: once stop_flag is set and the output file is open, every item that was
\* in the queue at that moment is eventually written and counted; and setting
\* the flag when it is already set changes nothing of the engine.
C5_EnqueuedItemsAreWritten ==
    /\ (stop_flag /\ WriterOpened) ~> (owed = 0)
    /\ [][(stop_flag /\ SetsFlag) => UNCHANGED <<engineVars, owed>>]_vars

\* C5 witness: after stop() the writer has written an item that was in the
\* queue when the flag was set and is about to count it.
C5_Witness ==
    /\ cancel_requested
    /\ stop_flag
    /\ writer = "inc"
    /\ owed > 0
    /\ lines # <<>>

\* C6: result_queue never holds more than QueueCapacity items; a push only
\* appends, and a worker that finds the queue full stays in put with its item.
C6_QueueBounded ==
    /\ [](Len(result_queue) <= QueueCapacity)
    /\ [][/\ Len(result_queue') > Len(result_queue)
             => /\ Len(result_queue') = Len(result_queue) + 1
                /\ SubSeq(result_queue', 1, Len(result_queue)) = result_queue
          /\ \A i \in Tasks :
                (task[i] = "put" /\ Len(result_queue) = QueueCapacity)
                    => /\ task'[i] = "put"
                       /\ cur'[i] = cur[i]
                       /\ count'[i] = count[i]]_vars

\* C6 witness: a worker waits in put on a full queue.
C6_Witness ==
    /\ Len(result_queue) = QueueCapacity
    /\ \E i \in Tasks : task[i] = "put"

\* C7: every started run terminates: generate returns.
C7_RunTerminates == (gen = "start_writer") ~> Returned

\* The statement of C7 restricted to the runs whose writer did not fail.
RunTerminatesUnlessCrashed ==
    (gen = "start_writer") ~> (Returned \/ writer = "crashed")

\* C8: when a worker task raised, generate still returns (without stop() and
\* without a join timeout) with the exception printed, every other task done
\* and the candidates of the other chunks written.
C8_WorkerFailureIsolated ==
    (/\ Returned
     /\ ~cancel_requested
     /\ ~join_expired
     /\ \E i \in Tasks : task[i] = "failed")
        => /\ errors = {i \in Tasks : task[i] = "failed"}
           /\ \A i \in Tasks :
                 task[i] # "failed"
                     => /\ task[i] = "done"
                        /\ generate_variations(word_chunks[i], year, depth,
                                               use_leet, use_caps)
                               \subseteq Range(lines)

\* The statement of C8 restricted to the runs whose writer did not fail.
WorkerFailureIsolatedUnlessCrashed ==
    writer # "crashed" => C8_WorkerFailureIsolated

\* C9: with an empty word list no run is started: no engine, no generation
\* thread, no writer, and the application is not generating.
C9_EmptyWordListRejected ==
    words = <<>>
        => /\ ~engine
           /\ gen = "none"
           /\ writer = "none"
           /\ ~is_generating

\* C10: counter never decreases; it changes only by +1, in the step in which
\* the writer counts the item it has popped and written.
C10_CounterMonotonic ==
    [][\/ counter' = counter
       \/ /\ counter' = counter + 1
          /\ writer = "inc"
          /\ w_item # NoItem
          /\ lines # <<>>
          /\ lines[Len(lines)] = w_item
          /\ result_queue' = result_queue]_vars

\* C10 witness: the writer has counted items, get_count was read by the
\* progress callback and stop() was called.
C10_Witness ==
    /\ counter >= 2
    /\ password_count >= 1
    /\ cancel_requested

\* C11: once stop_flag of the run is set, by stop() or by the end of generate,
\* no step of the run clears it again.
C11_FlagNeverCleared == [][stop_flag => stop_flag']_vars

\* C11 witness: the flag was set by stop(), generate has since passed its own
\* stop_flag.set() and returned, and the flag is still set.
C11_Witness ==
    /\ stop_flag
    /\ cancel_requested
    /\ gen = "dead"
    /\ writer = "done"
    /\ ui = "idle"

\* the indices of words that the window of chunk k (k = 0, 1, ...) covers,
\* counted from 0 as in the claim
Window(k, n) == {i \in 0..(n - 1) : 2 * k <= i /\ i <= Min(2 * k + 2, n - 1)}

\* C12: generate cuts a list of n <= 3 tokens into one chunk holding them all;
\* for n > 3 chunk k is the window of the tokens at indices 2k .. min(2k+2, n-1),
\* so every chunk has 1 to 3 tokens, consecutive chunks share at most one
\* token position and every token is in some chunk.
C12_Partitioning ==
    ret.fn = "partition" =>
        LET ws == p_args.words
            n == Len(ws)
            ch == ret.val
        IN  /\ n <= 3 => ch = <<ws>>
            /\ n > 3 =>
                  /\ Len(ch) = Cardinality({k \in 0..(n - 1) : 2 * k <= n - 1})
                  /\ \A k \in 0..(Len(ch) - 1) :
                        /\ Len(ch[k + 1]) = Cardinality(Window(k, n))
                        /\ \A j \in 1..Len(ch[k + 1]) : ch[k + 1][j] = ws[2 * k + j]
                        /\ Len(ch[k + 1]) \in 1..3
                  /\ \A k \in 0..(Len(ch) - 2) :
                        Cardinality(Window(k, n) \cap Window(k + 1, n)) <= 1
                  /\ \A i \in 0..(n - 1) : \E k \in 0..(Len(ch) - 1) :
                        /\ i \in Window(k, n)
                        /\ ch[k + 1][i - 2 * k + 1] = ws[i + 1]

\* C12 witness: five tokens were cut into three chunks, the last one holding
\* the fifth token alone.
C12_Witness ==
    /\ ret.fn = "partition"
    /\ Len(p_args.words) = 5
    /\ Len(ret.val) = 3
    /\ ret.val[3] = <<p_args.words[5]>>
    /\ ret.val[2][1] = ret.val[1][3]

\* C13: in a run of the single-threaded program no string is yielded twice by
\* generate_words_smart and no line is written twice, over both of its loops,
\* repeated tokens included.
C13_NoCandidateTwice ==
    /\ ~repeated
    /\ \A v \in DOMAIN outfile : outfile[v] = 1
    /\ Cardinality(DOMAIN outfile) = s_count

\* C13 witness: the run over a, b, ab has ended without a stop; the
\* combination a + b, equal to the third word, was passed over, which leaves
\* 3 words and 17 of the 18 combinations written.
C13_Witness ==
    /\ tui = "idle"
    /\ notice = "done"
    /\ stopped_at = -1
    /\ base_words = <<<<"a">>, <<"b">>, <<"a", "b">>>>
    /\ Cardinality(combine_words(split_words(base_words).names,
                                 split_words(base_words).numbers)) = 18
    /\ s_count = 20

\* the run is suspended with generating cleared
Cancelled == tui = "sleep" /\ ~generating

\* generate returned in a run that was not stopped, whose join did not time
\* out and whose tasks all returned without raising
Completed ==
    /\ Returned
    /\ ~cancel_requested
    /\ ~join_expired
    /\ \A i \in Tasks : task[i] = "done"

\* the lines of the output file that are p
Occurrences(p) == Cardinality({k \in 1..Len(lines) : lines[k] = p})

\* the candidates of chunk i
ChunkSet(i) == generate_variations(word_chunks[i], year, depth, use_leet, use_caps)

\* C14: nothing makes the candidates of different chunks unique: a completed
\* run that was not cancelled has written each candidate once per chunk that
\* produced it, and counter is the sum of the sizes of the chunks' sets.
C14_DuplicatesAcrossChunks ==
    Completed =>
        /\ \A p \in UNION {ChunkSet(i) : i \in Tasks} \cup Range(lines) :
              Occurrences(p) = Cardinality({i \in Tasks : p \in ChunkSet(i)})
        /\ counter = SumTo([i \in Tasks |-> Cardinality(ChunkSet(i))],
                            Len(word_chunks))

\* The statement of C14 restricted to the runs whose writer did not fail: it
\* holds there, so C14 fails through the writer's failure only.
DuplicatesAcrossChunksUnlessCrashed ==
    writer # "crashed" => C14_DuplicatesAcrossChunks

\* a completed run in which two chunks produced the same candidate and both
\* copies were written
DuplicateWritten ==
    /\ Completed
    /\ writer = "done"
    /\ \E i, j \in Tasks : i # j /\ ChunkSet(i) \cap ChunkSet(j) # {}
    /\ \E p \in Range(lines) : Occurrences(p) = 2

\* C15: once generating is cleared during a run nothing more is written, the
\* next step of the run ends it, and the count the run ends with is the count
\* at the moment of the stop.
C15_StopEndsRun ==
    /\ [](stopped_at # -1 => s_count = stopped_at)
    /\ [][Cancelled =>
             /\ outfile' = outfile
             /\ s_count' = s_count
             /\ tui' # tui => (tui' = "idle" /\ notice' = "done")
             /\ seen' = seen \/ tui' = "idle"]_vars

\* C15 witness: a run that was stopped after two candidates has ended, with
\* two lines written, while more candidates were left.
C15_Witness ==
    /\ tui = "idle"
    /\ notice = "done"
    /\ stopped_at = 2
    /\ s_count = 2
    /\ base_words = <<<<"a">>, <<"1", "2">>>>
    /\ btn_stop_disabled

\* how often p is written by a run over ws that completes: once for every
\* chunk of ws whose candidates hold p
ExpectedCount(p, ws, y, d, l, c) ==
    Cardinality({k \in 1..Len(WordChunks(ws)) :
                    p \in generate_variations(WordChunks(ws)[k], y, d, l, c)})

\* the strings a run over ws writes when it completes
ExpectedLines(ws, y, d, l, c) ==
    UNION {generate_variations(WordChunks(ws)[k], y, d, l, c) :
              k \in 1..Len(WordChunks(ws))}

\* C16: the content a completed, uncancelled run wrote is decided by its
\* tokens and options alone, whatever the interleaving of workers and writer
\* and the size of the pool, so two such runs with the same tokens and options
\* write the same collection of lines.
C16_ContentDeterministic ==
    Completed =>
        \A p \in ExpectedLines(words, year, depth, use_leet, use_caps)
                   \cup Range(lines) :
            Occurrences(p) = ExpectedCount(p, words, year, depth, use_leet, use_caps)

\* The statement of C16 restricted to the runs whose writer did not fail.
ContentDeterministicUnlessCrashed ==
    writer # "crashed" => C16_ContentDeterministic

\* C17: the estimate is an upper bound of the number of candidates the
\* generator yields: at every moment of a run the count of written candidates
\* is at most progress.total.
C17_EstimateIsUpperBound == notice # "error" => s_count <= total

\* the strings of the end-to-end example
admin == <<"a", "d", "m", "i", "n">>

y2024 == <<"2", "0", "2", "4">>

\* the call of the example: tokens admin and 2024, no year, depth 2, case
\* patterns and substitution on
EndToEndCall ==
    /\ ret.fn = "generate_variations"
    /\ p_args = [words |-> <<admin, y2024>>, year |-> <<>>, depth |-> 2,
                 use_leet |-> TRUE, use_caps |-> TRUE]

\* C18 as stated: the output of the example holds admin, ADMIN, Admin, a
\* substituted form of admin, admin@2024 and 2024admin.
C18_EndToEndSampled ==
    EndToEndCall =>
        /\ {admin, StrUpper(admin), <<"A", "d", "m", "i", "n">>} \subseteq ret.val
        /\ \E v \in ret.val :
              /\ v # admin
              /\ Len(v) = Len(admin)
              /\ \A k \in 1..Len(admin) :
                    v[k] = admin[k]
                    \/ (admin[k] \in DOMAIN LEET_MAP
                        /\ v[k] \in Range(Tail(LEET_MAP[admin[k]])))
        /\ admin \o <<"@">> \o y2024 \in ret.val
        /\ y2024 \o admin \in ret.val

\* C18 as amended: the output of the example holds admin, ADMIN, Admin, the
\* substituted forms 4dmin and adm1n, and the combinations admin2024,
\* admin-2024 and 2024admin; it holds no string with "@".
C18_EndToEndSampledAmended ==
    EndToEndCall =>
        /\ {admin, StrUpper(admin), <<"A", "d", "m", "i", "n">>} \subseteq ret.val
        /\ {<<"4", "d", "m", "i", "n">>, <<"a", "d", "m", "1", "n">>}
               \subseteq ret.val
        /\ {admin \o y2024, admin \o <<"-">> \o y2024, y2024 \o admin}
               \subseteq ret.val
        /\ \A v \in ret.val : ~CharIn("@", v)

\* C18 witness: the call of the example returned, with 2024admin in its result.
C18_Witness == EndToEndCall /\ y2024 \o admin \in ret.val /\ Cardinality(ret.val) = 26

\* the mutated base strings of the first loop of generate_variations: every
\* case pattern in use and every substitution variant of every token
MutatedBases(a) ==
    UNION {apply_leet(apply_caps(word, cp), IF a.use_leet THEN Min(a.depth, 1) ELSE 0) :
              word \in Range(a.words),
              cp \in (IF a.use_caps THEN Range(CAPS_PATTERNS) ELSE {"lower"})}

\* the separators the year is joined with
YearSeparators == {<<"-">>}

\* C19 as stated: with a year, b+year and year+b are in the result for every
\* mutated base string b; with depth >= 2 also b+sep+year and year+sep+b for
\* each separator, and b+suffix for each of the suffixes "!", "123", "1".
C19_YearAndSuffix ==
    (ret.fn = "generate_variations" /\ p_args.year # <<>>) =>
        \A b \in MutatedBases(p_args) :
            /\ b \o p_args.year \in ret.val
            /\ p_args.year \o b \in ret.val
            /\ p_args.depth >= 2 =>
                  /\ \A sep \in YearSeparators :
                        /\ b \o sep \o p_args.year \in ret.val
                        /\ p_args.year \o sep \o b \in ret.val
                  /\ \A suffix \in {<<"!">>, <<"1", "2", "3">>, <<"1">>} :
                        b \o suffix \in ret.val

\* C19 as amended: the year part as stated, with "-" the one separator; the
\* suffixes are added, with depth >= 2 and whatever the year, to the
\* lower-case form of every token and, with case patterns on, to its
\* title-case form: not to the other mutated base strings.
C19_YearAndSuffixAmended ==
    ret.fn = "generate_variations" =>
        /\ p_args.year # <<>> =>
              \A b \in MutatedBases(p_args) :
                  /\ b \o p_args.year \in ret.val
                  /\ p_args.year \o b \in ret.val
                  /\ p_args.depth >= 2 =>
                        /\ b \o <<"-">> \o p_args.year \in ret.val
                        /\ p_args.year \o <<"-">> \o b \in ret.val
        /\ p_args.depth >= 2 =>
              \A k \in 1..Len(p_args.words) :
                  \A suffix \in {<<"!">>, <<"1", "2", "3">>, <<"1">>} :
                      /\ StrLower(p_args.words[k]) \o suffix \in ret.val
                      /\ p_args.use_caps =>
                            StrTitle(p_args.words[k]) \o suffix \in ret.val

\* C19 witness: for the token ab with a year, depth 2, case patterns and
\* substitution, the result holds ab7, 7-AB and Ab!, but neither AB! nor 4b!.
C19_Witness ==
    /\ ret.fn = "generate_variations"
    /\ p_args.words = <<<<"a", "b">>>>
    /\ p_args.year = <<"7">>
    /\ p_args.depth = 2
    /\ p_args.use_leet
    /\ p_args.use_caps
    /\ {<<"a", "b", "7">>, <<"7", "-", "A", "B">>, <<"A", "b", "!">>} \subseteq ret.val
    /\ <<"A", "B", "!">> \notin ret.val
    /\ <<"4", "b", "!">> \notin ret.val

\* the strings combine_words forms from two names that differ, with or
\* without a number, and from one name and a number
FromDistinctNames(names, numbers) ==
    LET bases == {q[1] \o Str(sep) \o q[2] :
                     q \in {r \in Range(names) \X Range(names) : r[1] # r[2]},
                     sep \in Range(separators)}
    IN  bases
        \cup {base \o Str(sym) \o num :
                 base \in bases, sym \in Range(symbols), num \in Range(numbers)}
        \cup {num \o base : base \in bases, num \in Range(numbers)}
        \cup {name \o Str(sym) \o num :
                 name \in Range(names), sym \in Range(symbols),
                 num \in Range(numbers)}
        \cup {num \o name : name \in Range(names), num \in Range(numbers)}

\* the case patterns the pair loop of generate_variations gives to (w1, w2)
PairCaps(caps) ==
    IF caps THEN {<<"lower", "title">>, <<"title", "lower">>}
    ELSE {<<"lower", "lower">>}

\* what the pair loop would form from a token of words[:3] and itself
SelfPairings(a) ==
    {apply_caps(a.words[k], cc[1]) \o Str(sep) \o apply_caps(a.words[k], cc[2]) :
        k \in 1..Min(3, Len(a.words)),
        cc \in PairCaps(a.use_caps),
        sep \in Range(SubSeq(SEPARATORS, 1, 2))}

\* what generate_variations forms from one token, and from two tokens of
\* words[:3] that differ
FromDistinctWords(a) ==
    WordVariations(a.words, a.year, a.depth, a.use_leet, a.use_caps)
    \cup SuffixVariations(a.words, a.depth, a.use_caps)
    \cup {apply_caps(q[1], cc[1]) \o Str(sep) \o apply_caps(q[2], cc[2]) \o yy :
             q \in {r \in Range(SubSeq(a.words, 1, Min(3, Len(a.words))))
                          \X Range(SubSeq(a.words, 1, Min(3, Len(a.words)))) :
                       r[1] # r[2]},
             cc \in PairCaps(a.use_caps),
             sep \in Range(SubSeq(SEPARATORS, 1, 2)),
             yy \in {<<>>, a.year}}

\* C20: no name is paired with itself, whatever the list (a token may be in
\* it twice): the pairs of combine_words and of the pair loop of
\* generate_variations hold two different strings, and a string a+sep+a is in
\* a result only when another pattern forms it too; and combine_words emits
\* a+sep+b for every ordered pair of different names and every separator.
C20_NoSelfPairing ==
    /\ ret.fn = "combine_words" =>
          LET names == split_words(p_args.words).names
              numbers == split_words(p_args.words).numbers
          IN  /\ \A pr \in NamePairs(names) : pr[1] # pr[2]
              /\ \A k \in 1..Len(names), sep \in Range(separators) :
                    names[k] \o Str(sep) \o names[k] \in ret.val
                        => names[k] \o Str(sep) \o names[k]
                               \in FromDistinctNames(names, numbers)
              /\ \A k, h \in 1..Len(names), sep \in Range(separators) :
                    names[k] # names[h]
                        => names[k] \o Str(sep) \o names[h] \in ret.val
    /\ ret.fn = "generate_variations" =>
          /\ \A pr \in WordPairs(p_args.words) : pr[1] # pr[2]
          /\ SelfPairings(p_args) \cap ret.val \subseteq FromDistinctWords(p_args)

\* C20 witness: combine_words was called with the names a, b, a: it returned
\* ab and b_a but not aa.
C20_Witness ==
    /\ ret.fn = "combine_words"
    /\ p_args.words = <<<<"a">>, <<"b">>, <<"a">>>>
    /\ {<<"a", "b">>, <<"b", "_", "a">>} \subseteq ret.val
    /\ <<"a", "a">> \notin ret.val
    /\ Cardinality(ret.val) = 6

\* the product, over the positions of w, of the size of the glyph pool of the
\* character there: the length of its entry in the table, 1 with no entry
RECURSIVE PoolSizeProduct(_)
PoolSizeProduct(w) ==
    IF w = <<>> THEN 1
    ELSE (IF LowerChar(Head(w)) \in DOMAIN leet
          THEN Len(leet[LowerChar(Head(w))]) ELSE 1) * PoolSizeProduct(Tail(w))

\* C21: for every token w the size of leet_variants(w) is the product over
\* the positions of w of the size of the glyph pool of that position: two
\* different choices of glyphs never give the same string.
C21_FullSubstitutionSize ==
    ret.fn = "leet_variants" =>
        /\ Cardinality(ret.val) = PoolSizeProduct(ret.arg)
        /\ \A v \in ret.val : Len(v) = Len(ret.arg)

\* C21 witness: leet_variants was called with Abt7 and returned 4 * 3 * 4 * 1
\* strings, a8+7 among them.
C21_Witness ==
    /\ ret.fn = "leet_variants"
    /\ ret.arg = <<"A", "b", "t", "7">>
    /\ Cardinality(ret.val) = 48
    /\ <<"a", "8", "+", "7">> \in ret.val

\* the characters of the glyph table of PasswordGenerator that w holds, in
\* either case
Mappable(w) == {c \in DOMAIN LEET_MAP : CharIn(c, w) \/ CharIn(UpperChar(c), w)}

\* C22: apply_leet(w, 1) returns exactly {w} for a token w that holds no
\* character of the glyph table, in either case; for any token it returns w
\* and at most one more string for each character of the table that w holds.
C22_SampledSubstitution ==
    ret.fn = "apply_leet" =>
        /\ Mappable(ret.arg) = {} => ret.val = {ret.arg}
        /\ ret.arg \in ret.val
        /\ Cardinality(ret.val) <= 1 + Cardinality(Mappable(ret.arg))
        /\ \A v \in ret.val \ {ret.arg} :
              \E c \in Mappable(ret.arg) :
                 \A k \in 1..Len(ret.arg) :
                    v[k] = IF LowerChar(ret.arg[k]) = c THEN LEET_MAP[c][2]
                           ELSE ret.arg[k]

\* C22 witness: apply_leet was called with admin, which holds two characters
\* of the table, and returned admin, 4dmin and adm1n.
C22_Witness ==
    /\ ret.fn = "apply_leet"
    /\ ret.arg = admin
    /\ ret.val = {admin, <<"4", "d", "m", "i", "n">>, <<"a", "d", "m", "1", "n">>}

\* a worker task or the writer of the current run is active
CurrentRunActive ==
    \/ \E i \in Tasks : Unfinished(i)
    \/ writer \in {"open", "loop", "get", "write", "inc"}

\* a worker task or the writer of the earlier run is active
EarlierRunActive == old_tasks > 0 \/ old_writer \in {"open", "active"}

\* is_generating is cleared in this step while the current run is active
\* and stop_generation is not running
ClearedUnderRun ==
    /\ is_generating /\ ~is_generating'
    /\ CurrentRunActive
    /\ ~cancel_requested

\* C23: between two handlers of the UI thread, is_generating is true
\* whenever a worker task or the writer of a run is active; the earlier
\* generation thread never clears is_generating of a later run that is
\* active; and the writers of two runs never hold the output file open
\* together.
C23_RunningStateConsistent ==
    /\ [](ui = "idle" /\ (CurrentRunActive \/ EarlierRunActive) => is_generating)
    /\ [][~(ClearedUnderRun /\ old_gen = "clear" /\ old_gen' = "dead")]_vars
    /\ [](~(old_writer = "active" /\ writer \in {"loop", "get", "write", "inc"}))

\* the terminal state of a run: the submit loop is over, every worker task
\* that was submitted has returned, and writer_thread has left its loop
Terminal ==
    /\ gen \in {"as_completed", "shutdown", "set_stop", "join", "clear", "dead"}
    /\ \A i \in Futures : Finished(i)
    /\ writer = "done"

\* C24: in every terminal state of a run result_queue is empty and every
\* item the workers pushed is in the output, also when stop() came while a
\* worker was between its check of stop_flag and its push.
C24_NoItemStranded ==
    Terminal => result_queue = <<>> /\ Len(lines) = Pushed

\* no item is stranded in a run that stop() was not called for
NoItemStrandedUnlessCancelled ==
    Terminal /\ ~cancel_requested => result_queue = <<>> /\ Len(lines) = Pushed

\* a run without stop() has ended with its two items written
UncancelledRunDrained ==
    Terminal /\ ~cancel_requested /\ gen = "dead" /\ Pushed = 2 /\ Len(lines) = 2

\* the items the writer has popped: the ones it has counted and the one it holds
Popped == counter + (IF w_item = NoItem THEN 0 ELSE 1)

====

